---- MODULE Spec2Model ----
(***************************************************************************)
(* Statement assembly of the squirrel SQL builder (src/part.go): the part  *)
(* fragment, the fragment sequencer appendToSql, the SELECT and INSERT     *)
(* assemblers and the clause-adding calls of SelectBuilder and             *)
(* InsertBuilder.                                                          *)
(*                                                                         *)
(* SQL text is a sequence of tokens (non-empty strings), so that a Go      *)
(* string is empty exactly when its token sequence is <<>>.  The neutral   *)
(* positional marker is the token "?".  Arguments are integers.            *)
(***************************************************************************)
EXTENDS Integers, Sequences, FiniteSets, TLC

VARIABLES sel, ins, last, ops

vars == <<sel, ins, last, ops>>

(* ------------------------------ bounds -------------------------------- *)

\* clause-adding calls made in one behaviour of SpecSel / SpecIns
MaxOps == 4
\* clause-adding calls made in one behaviour of SpecImm (two handles each)
MaxDerive == 2

\* builder variables of the calling program
Handles == {1, 2}

(* --------------------------- text helpers ----------------------------- *)

RECURSIVE Join(_, _)
\* strings.Join(elems, sep), each element a text
Join(elems, sep) ==
    IF Len(elems) = 0 THEN <<>>
    ELSE IF Len(elems) = 1 THEN elems[1]
    ELSE elems[1] \o <<sep>> \o Join(Tail(elems), sep)

RECURSIVE Count(_, _)
\* number of occurrences of token tok in text
Count(text, tok) ==
    IF Len(text) = 0 THEN 0
    ELSE (IF Head(text) = tok THEN 1 ELSE 0) + Count(Tail(text), tok)

Tokens(text) == {text[i] : i \in 1..Len(text)}

(* ------------------------- errors (panics) ---------------------------- *)

NoErr == ""
ErrInvalidPred == "expected string or Sqlizer"
ErrNoColumns == "select statements must have at least one result column"
ErrNoTable == "insert statements must specify a table"
ErrNoPayload == "insert statements must have at least one set of values or select clause"
ErrValuesNotSet == "values for insert statements are not set"
ErrSelectNotSet == "select clause for insert statements are not set"

\* the result of a render: err # NoErr is a panic, which returns nothing
Rendered(sql, args) == [err |-> NoErr, sql |-> sql, args |-> args]
Panic(e) == [err |-> e, sql |-> <<>>, args |-> <<>>]

\* a bytes.Buffer being written, with the argument list accumulated so far
W0 == Rendered(<<>>, <<>>)
WriteString(w, text) == IF w.err # NoErr THEN w ELSE [w EXCEPT !.sql = @ \o text]

(* ----------------------------- fragments ------------------------------ *)

\* A Sqlizer value.  k is the implementing type ("part", "wherePart",
\* "expr"); pt is the dynamic type of a part's pred ("nil", "string",
\* "Sqlizer", "other"); inner is <<>> or <<d>> with d the selectData of a
\* SelectBuilder held as pred.
Frag(k, pt, sql, args, inner) ==
    [k |-> k, pt |-> pt, sql |-> sql, args |-> args, inner |-> inner]

\* newPart stores pred and args as given; nothing is classified here
newPart(pred, args) == Frag("part", pred.pt, pred.sql, args, pred.inner)

newWherePart(pred, args) == Frag("wherePart", pred.pt, pred.sql, args, pred.inner)

Expr(sql, args) == Frag("expr", "string", sql, args, <<>>)

(* ------------------------ placeholder rewriter ------------------------ *)

DollarTok == <<"$1", "$2", "$3", "$4", "$5", "$6", "$7", "$8", "$9">>

RECURSIVE DollarFrom(_, _)
\* the k-th "?" from the left becomes "$k"; every other token is kept
DollarFrom(text, k) ==
    IF Len(text) = 0 THEN <<>>
    ELSE IF Head(text) = "?"
         THEN <<DollarTok[k]>> \o DollarFrom(Tail(text), k + 1)
         ELSE <<Head(text)>> \o DollarFrom(Tail(text), k)

ReplacePlaceholders(f, text) ==
    IF f = "Dollar" THEN DollarFrom(text, 1) ELSE text

(* ----------------------------- rendering ------------------------------ *)

RECURSIVE part_ToSql(_), wherePart_ToSql(_), Sqlizer_ToSql(_)
RECURSIVE appendToSqlFrom(_, _, _, _), selectData_Assemble(_), selectData_ToSql(_)

\* part.ToSql: the type switch on pred, made at every render
part_ToSql(p) ==
    CASE p.pt = "nil" -> Rendered(<<>>, <<>>)
      [] p.pt = "Sqlizer" -> selectData_ToSql(p.inner[1])
      [] p.pt = "string" -> Rendered(p.sql, p.args)
      [] OTHER -> Panic(ErrInvalidPred)

\* wherePart.ToSql: nil and "" are ignored, a string carries its args, a
\* nested fragment renders itself, anything else is an invalid predicate
wherePart_ToSql(p) ==
    CASE p.pt = "nil" -> Rendered(<<>>, <<>>)
      [] p.pt = "Sqlizer" -> selectData_ToSql(p.inner[1])
      [] p.pt = "string" -> Rendered(p.sql, p.args)
      [] OTHER -> Panic(ErrInvalidPred)

\* expr.ToSql: the raw text and its arguments
expr_ToSql(e) == Rendered(e.sql, e.args)

\* dynamic dispatch of Sqlizer.ToSql
Sqlizer_ToSql(f) ==
    CASE f.k = "part" -> part_ToSql(f)
      [] f.k = "wherePart" -> wherePart_ToSql(f)
      [] OTHER -> expr_ToSql(f)

\* the loop of appendToSql from index i on; w holds the writer and args
appendToSqlFrom(parts, i, w, sep) ==
    IF w.err # NoErr \/ i > Len(parts) THEN w
    ELSE LET r == Sqlizer_ToSql(parts[i]) IN
         IF r.err # NoErr THEN [w EXCEPT !.err = r.err]
         ELSE IF Len(r.sql) = 0 THEN appendToSqlFrom(parts, i + 1, w, sep)
         ELSE LET w1 == WriteString(w, r.sql)
                  w2 == IF i < Len(parts) THEN WriteString(w1, <<sep>>) ELSE w1
              IN appendToSqlFrom(parts, i + 1, [w2 EXCEPT !.args = @ \o r.args], sep)

appendToSql(parts, w, sep) == appendToSqlFrom(parts, 1, w, sep)

RECURSIVE exprs_AppendToSqlFrom(_, _, _, _)
exprs_AppendToSqlFrom(es, i, w, sep) ==
    IF w.err # NoErr \/ i > Len(es) THEN w
    ELSE LET w1 == IF i > 1 THEN WriteString(w, <<sep>>) ELSE w
             w2 == WriteString(w1, es[i].sql)
         IN exprs_AppendToSqlFrom(es, i + 1, [w2 EXCEPT !.args = @ \o es[i].args], sep)

\* exprs.AppendToSql: every expression, the separator between neighbours
exprs_AppendToSql(es, w, sep) == exprs_AppendToSqlFrom(es, 1, w, sep)

(* --------------------------- SELECT assembler ------------------------- *)

\* mutant: the column check skipped once a FROM clause is set
selectPrecondition_UnlessFrom(d) ==
    IF Len(d.Columns) = 0 /\ d.From = <<>> THEN ErrNoColumns ELSE NoErr

selectPrecondition(d) == IF Len(d.Columns) = 0 THEN ErrNoColumns ELSE NoErr

selectPrefixes(d, w) ==
    IF Len(d.Prefixes) > 0
    THEN WriteString(exprs_AppendToSql(d.Prefixes, w, " "), <<" ">>)
    ELSE w

selectKeyword(d, w) ==
    LET w1 == WriteString(w, <<"SELECT ">>) IN
    IF Len(d.Options) > 0
    THEN WriteString(WriteString(w1, Join(d.Options, " ")), <<" ">>)
    ELSE w1

selectColumns(d, w) ==
    IF Len(d.Columns) > 0 THEN appendToSql(d.Columns, w, ", ") ELSE w

selectFrom(d, w) ==
    IF d.From # <<>>
    THEN appendToSql(<<d.From[1]>>, WriteString(w, <<" FROM ">>), "")
    ELSE w

selectJoins(d, w) ==
    IF Len(d.Joins) > 0
    THEN appendToSql(d.Joins, WriteString(w, <<" ">>), " ")
    ELSE w

selectWhere(d, w) ==
    IF w.err # NoErr THEN w
    ELSE IF Len(d.WhereParts) > 0
    THEN LET first == Sqlizer_ToSql(d.WhereParts[1]) IN
         IF first.err # NoErr THEN [w EXCEPT !.err = first.err]
         ELSE IF Len(d.WhereParts) = 1 /\ Len(first.sql) = 0 THEN w
         ELSE appendToSql(d.WhereParts, WriteString(w, <<" WHERE ">>), " AND ")
    ELSE w

selectGroupBys(d, w) ==
    IF Len(d.GroupBys) > 0
    THEN WriteString(WriteString(w, <<" GROUP BY ">>), Join(d.GroupBys, ", "))
    ELSE w

selectHaving(d, w) ==
    IF Len(d.HavingParts) > 0
    THEN appendToSql(d.HavingParts, WriteString(w, <<" HAVING ">>), " AND ")
    ELSE w

selectOrderBys(d, w) ==
    IF Len(d.OrderBys) > 0
    THEN WriteString(WriteString(w, <<" ORDER BY ">>), Join(d.OrderBys, ", "))
    ELSE w

selectLimit(d, w) ==
    IF Len(d.Limit) > 0 THEN WriteString(WriteString(w, <<" LIMIT ">>), d.Limit) ELSE w

selectOffset(d, w) ==
    IF Len(d.Offset) > 0 THEN WriteString(WriteString(w, <<" OFFSET ">>), d.Offset) ELSE w

selectSuffixes(d, w) ==
    IF Len(d.Suffixes) > 0
    THEN exprs_AppendToSql(d.Suffixes, WriteString(w, <<" ">>), " ")
    ELSE w

\* mutant: the HAVING slot written before the WHERE slot
selectData_Assemble_HavingFirst(d) ==
    LET w1 == selectPrefixes(d, W0)
        w2 == selectKeyword(d, w1)
        w3 == selectColumns(d, w2)
        w4 == selectFrom(d, w3)
        w5 == selectJoins(d, w4)
        w6 == selectHaving(d, w5)
        w7 == selectWhere(d, w6)
        w8 == selectGroupBys(d, w7)
        w9 == selectOrderBys(d, w8)
        w10 == selectLimit(d, w9)
        w11 == selectOffset(d, w10)
    IN selectSuffixes(d, w11)

\* the buffer and argument list of selectData.ToSql before the rewrite
selectData_Assemble(d) ==
    LET w1 == selectPrefixes(d, W0)
        w2 == selectKeyword(d, w1)
        w3 == selectColumns(d, w2)
        w4 == selectFrom(d, w3)
        w5 == selectJoins(d, w4)
        w6 == selectWhere(d, w5)
        w7 == selectGroupBys(d, w6)
        w8 == selectHaving(d, w7)
        w9 == selectOrderBys(d, w8)
        w10 == selectLimit(d, w9)
        w11 == selectOffset(d, w10)
    IN selectSuffixes(d, w11)

selectData_ToSql(d) ==
    IF selectPrecondition(d) # NoErr THEN Panic(selectPrecondition(d))
    ELSE LET w == selectData_Assemble(d) IN
         IF w.err # NoErr THEN Panic(w.err)
         ELSE Rendered(ReplacePlaceholders(d.PlaceholderFormat, w.sql), w.args)

(* --------------------------- INSERT assembler ------------------------- *)

\* mutant: the payload check made before the table check
insertPrecondition_PayloadFirst(d) ==
    IF Len(d.Values) = 0 /\ d.Select = <<>> THEN ErrNoPayload
    ELSE IF Len(d.Into) = 0 THEN ErrNoTable
    ELSE NoErr

insertPrecondition(d) ==
    IF Len(d.Into) = 0 THEN ErrNoTable
    ELSE IF Len(d.Values) = 0 /\ d.Select = <<>> THEN ErrNoPayload
    ELSE NoErr

insertPrefixes(d, w) ==
    IF Len(d.Prefixes) > 0
    THEN WriteString(exprs_AppendToSql(d.Prefixes, w, " "), <<" ">>)
    ELSE w

insertKeyword(d, w) ==
    LET w1 == WriteString(w, <<"INSERT ">>) IN
    IF Len(d.Options) > 0
    THEN WriteString(WriteString(w1, Join(d.Options, " ")), <<" ">>)
    ELSE w1

insertInto(d, w) ==
    WriteString(WriteString(WriteString(w, <<"INTO ">>), d.Into), <<" ">>)

insertColumns(d, w) ==
    IF Len(d.Columns) > 0
    THEN WriteString(WriteString(WriteString(w, <<"(">>), Join(d.Columns, ",")), <<") ">>)
    ELSE w

RECURSIVE rowStrings(_), rowArgs(_), valuesStrings(_), valuesArgs(_)
\* valueStrings of one row: an expr gives its sql, any other value "?"
rowStrings(row) ==
    IF Len(row) = 0 THEN <<>>
    ELSE <<(IF Head(row).k = "expr" THEN Head(row).sql ELSE <<"?">>)>>
         \o rowStrings(Tail(row))

\* the arguments one row appends: an expr's args, any other value itself
rowArgs(row) ==
    IF Len(row) = 0 THEN <<>> ELSE Head(row).args \o rowArgs(Tail(row))

valuesStrings(rows) ==
    IF Len(rows) = 0 THEN <<>>
    ELSE <<(<<"(">> \o Join(rowStrings(Head(rows)), ",") \o <<")">>)>>
         \o valuesStrings(Tail(rows))

valuesArgs(rows) ==
    IF Len(rows) = 0 THEN <<>> ELSE rowArgs(Head(rows)) \o valuesArgs(Tail(rows))

appendValuesToSQL(d, w) ==
    IF Len(d.Values) = 0 THEN [w EXCEPT !.err = ErrValuesNotSet]
    ELSE LET w1 == WriteString(w, <<"VALUES ">>)
             w2 == WriteString(w1, Join(valuesStrings(d.Values), ","))
         IN [w2 EXCEPT !.args = @ \o valuesArgs(d.Values)]

appendSelectToSQL(d, w) ==
    IF d.Select = <<>> THEN [w EXCEPT !.err = ErrSelectNotSet]
    ELSE LET r == selectData_ToSql(d.Select[1]) IN
         IF r.err # NoErr THEN [w EXCEPT !.err = r.err]
         ELSE [WriteString(w, r.sql) EXCEPT !.args = @ \o r.args]

\* mutant: the values rows preferred over the sub-select
insertPayload_ValuesFirst(d, w) ==
    IF Len(d.Values) > 0 THEN appendValuesToSQL(d, w) ELSE appendSelectToSQL(d, w)

insertPayload(d, w) ==
    IF d.Select # <<>> THEN appendSelectToSQL(d, w) ELSE appendValuesToSQL(d, w)

insertSuffixes(d, w) ==
    IF Len(d.Suffixes) > 0
    THEN exprs_AppendToSql(d.Suffixes, WriteString(w, <<" ">>), " ")
    ELSE w

\* the buffer and argument list of insertData.ToSql before the rewrite
insertData_Assemble(d) ==
    LET w1 == insertPrefixes(d, W0)
        w2 == insertKeyword(d, w1)
        w3 == insertInto(d, w2)
        w4 == insertColumns(d, w3)
        w5 == insertPayload(d, w4)
    IN insertSuffixes(d, w5)

insertData_ToSql(d) ==
    IF insertPrecondition(d) # NoErr THEN Panic(insertPrecondition(d))
    ELSE LET w == insertData_Assemble(d) IN
         IF w.err # NoErr THEN Panic(w.err)
         ELSE Rendered(ReplacePlaceholders(d.PlaceholderFormat, w.sql), w.args)

(* ------------------------ builder state store ------------------------- *)

\* builder.Set: the field replaced wholesale, in a new snapshot
builder_Set(b, name, v) == [b EXCEPT ![name] = v]

\* builder.Append: one item added at the end of an ordered field
builder_Append(b, name, v) == [b EXCEPT ![name] = Append(@, v)]

\* builder.Extend: several items added, their relative order kept
builder_Extend(b, name, vs) == [b EXCEPT ![name] = @ \o vs]

\* a builder as StatementBuilder hands it out: every field empty, the
\* default placeholder format set
EmptySelect ==
    [PlaceholderFormat |-> "Question", Prefixes |-> <<>>, Options |-> <<>>,
     Columns |-> <<>>, From |-> <<>>, Joins |-> <<>>, WhereParts |-> <<>>,
     GroupBys |-> <<>>, HavingParts |-> <<>>, OrderBys |-> <<>>,
     Limit |-> <<>>, Offset |-> <<>>, Suffixes |-> <<>>]

EmptyInsert ==
    [PlaceholderFormat |-> "Question", Prefixes |-> <<>>, Options |-> <<>>,
     Into |-> <<>>, Columns |-> <<>>, Values |-> <<>>, Suffixes |-> <<>>,
     Select |-> <<>>]

(* ---------------------- values passed by the caller ------------------- *)

\* an interface{} passed as pred: its dynamic type and content
NilPred == [pt |-> "nil", sql |-> <<>>, inner |-> <<>>]
StringPred(text) == [pt |-> "string", sql |-> text, inner |-> <<>>]
SqlizerPred(d) == [pt |-> "Sqlizer", sql |-> <<>>, inner |-> <<d>>]
OtherPred == [pt |-> "other", sql |-> <<>>, inner |-> <<>>]

\* an interface{} passed as an insert value that is no expr
Value(v) == Frag("value", "other", <<>>, <<v>>, <<>>)

Digit == <<"0", "1", "2", "3", "4", "5", "6", "7", "8", "9">>

RECURSIVE FormatNat(_)
FormatNat(n) ==
    IF n < 10 THEN <<Digit[n + 1]>> ELSE FormatNat(n \div 10) \o <<Digit[(n % 10) + 1]>>

\* fmt.Sprintf("%d", n)
Sprintf_d(n) == IF n < 0 THEN <<"-">> \o FormatNat(0 - n) ELSE FormatNat(n)

(* ------------------------- SelectBuilder calls ------------------------ *)

SelectBuilder_PlaceholderFormat(b, f) == builder_Set(b, "PlaceholderFormat", f)

SelectBuilder_Prefix(b, sql, args) == builder_Append(b, "Prefixes", Expr(sql, args))

SelectBuilder_Options(b, options) == builder_Extend(b, "Options", options)

SelectBuilder_Columns(b, columns) ==
    builder_Extend(b, "Columns",
        [i \in 1..Len(columns) |-> newPart(StringPred(columns[i]), <<>>)])

SelectBuilder_Column(b, column, args) ==
    builder_Append(b, "Columns", newPart(column, args))

SelectBuilder_From(b, from) ==
    builder_Set(b, "From", <<newPart(StringPred(from), <<>>)>>)

SelectBuilder_JoinClause(b, pred, args) ==
    builder_Append(b, "Joins", newPart(pred, args))

SelectBuilder_Where(b, pred, args) ==
    builder_Append(b, "WhereParts", newWherePart(pred, args))

SelectBuilder_Condition(b) ==
    builder_Append(b, "WhereParts", newWherePart(StringPred(<<>>), <<>>))

SelectBuilder_GroupBy(b, groupBys) == builder_Extend(b, "GroupBys", groupBys)

SelectBuilder_Having(b, pred, rest) ==
    builder_Append(b, "HavingParts", newWherePart(pred, rest))

SelectBuilder_OrderBy(b, orderBys) == builder_Extend(b, "OrderBys", orderBys)

SelectBuilder_Limit(b, limit) == builder_Set(b, "Limit", Sprintf_d(limit))

SelectBuilder_Offset(b, offset) == builder_Set(b, "Offset", Sprintf_d(offset))

SelectBuilder_Suffix(b, sql, args) == builder_Append(b, "Suffixes", Expr(sql, args))

SelectBuilder_ToSql(b) == selectData_ToSql(b)

(* ------------------------- InsertBuilder calls ------------------------ *)

InsertBuilder_PlaceholderFormat(b, f) == builder_Set(b, "PlaceholderFormat", f)

InsertBuilder_Prefix(b, sql, args) == builder_Append(b, "Prefixes", Expr(sql, args))

InsertBuilder_Options(b, options) == builder_Extend(b, "Options", options)

InsertBuilder_Into(b, from) == builder_Set(b, "Into", from)

InsertBuilder_Columns(b, columns) == builder_Extend(b, "Columns", columns)

InsertBuilder_Values(b, values) == builder_Append(b, "Values", values)

InsertBuilder_Suffix(b, sql, args) == builder_Append(b, "Suffixes", Expr(sql, args))

\* clauses is the map in the order the range loop happens to visit it
InsertBuilder_SetMap(b, clauses) ==
    LET cols == [i \in 1..Len(clauses) |-> clauses[i].col]
        vals == [i \in 1..Len(clauses) |-> clauses[i].val]
    IN builder_Set(builder_Set(b, "Columns", cols), "Values", <<vals>>)

InsertBuilder_Select(b, sb) == builder_Set(b, "Select", <<sb>>)

InsertBuilder_ToSql(b) == insertData_ToSql(b)

(* ------------------------------- inputs ------------------------------- *)

\* SELECT builders the caller may pass as a nested fragment or sub-select
SubQuestion ==
    SelectBuilder_Where(SelectBuilder_Columns(EmptySelect, << <<"s">> >>),
                        StringPred(<<"t = ", "?">>), <<70>>)
SubDollar == SelectBuilder_PlaceholderFormat(SubQuestion, "Dollar")
SubNoColumns == EmptySelect
SubSelects == {SubQuestion, SubDollar, SubNoColumns}

Call(pred, args) == [pred |-> pred, args |-> args]
Raw(sql, args) == [sql |-> sql, args |-> args]

Formats == {"Question", "Dollar"}
PrefixIn == {Raw(<<"WITH p AS (", "?", ")">>, <<10>>)}
OptionsIn == {<< <<"DISTINCT">> >>}
ColumnsIn == {<< <<"c1">>, <<"c2">> >>}
ColumnIn ==
    {Call(StringPred(<<"c3 + ", "?">>), <<20>>), Call(NilPred, <<>>), Call(OtherPred, <<>>)}
    \cup {Call(SqlizerPred(d), <<>>) : d \in SubSelects}
FromIn == {<<"tbl">>}
JoinIn == {Call(StringPred(<<"JOIN j ON k = ", "?">>), <<30>>)}
WhereIn ==
    {Call(StringPred(<<"w = ", "?">>), <<40>>), Call(StringPred(<<"w2 < ", "?">>), <<41>>),
     Call(StringPred(<<>>), <<>>), Call(NilPred, <<>>)}
GroupByIn == {<< <<"g1">>, <<"g2">> >>}
HavingIn == {Call(StringPred(<<"h > ", "?">>), <<50>>), Call(NilPred, <<>>)}
OrderByIn == {<< <<"o1">> >>}
LimitIn == {10}
OffsetIn == {5}
SuffixIn == {Raw(<<"FETCH FIRST ", "?">>, <<60>>)}

IntoIn == {<<"tbl">>, <<>>}
InsColumnsIn == {<< <<"a">>, <<"b">> >>}
ValuesIn == {<<Value(81), Value(82)>>, <<Expr(<<"x + ", "?">>, <<83>>), Value(84)>>}
\* the entries of the map passed to SetMap, in each order a range may take
SetMapIn ==
    {<<[col |-> <<"a">>, val |-> Value(85)], [col |-> <<"b">>, val |-> Value(86)]>>,
     <<[col |-> <<"b">>, val |-> Value(86)], [col |-> <<"a">>, val |-> Value(85)]>>}
InsPrefixIn == {Raw(<<"WITH p AS (", "?", ")">>, <<10>>)}
InsSuffixIn == {Raw(<<"RETURNING ", "?">>, <<60>>), Raw(<<"ON CONFLICT DO NOTHING">>, <<>>)}
InsOptionsIn == {<< <<"IGNORE">> >>}

(* ------------------------------- state -------------------------------- *)

\* sel[h], ins[h]: the builder value held by the caller's variable h;
\* last: the latest clause-adding call, its receiver and result variable;
\* ops: the number of calls made
Init ==
    /\ sel = [h \in Handles |-> EmptySelect]
    /\ ins = [h \in Handles |-> EmptyInsert]
    /\ last = [b |-> "none", call |-> "none", src |-> 1, dst |-> 1]
    /\ ops = 0

\* mutant: the call changes its receiver in place and returns it
Return_InPlace(store, s, t, b) == [store EXCEPT ![t] = b, ![s] = b]

\* t := s.Call(...): the receiver is passed by value and the call returns
\* a new builder value, which only the variable t then holds
Return(store, s, t, b) == [store EXCEPT ![t] = b]

SelCall(c, s, t, b) ==
    /\ sel' = Return(sel, s, t, b)
    /\ last' = [b |-> "sel", call |-> c, src |-> s, dst |-> t]
    /\ ops' = ops + 1
    /\ UNCHANGED ins

InsCall(c, s, t, b) ==
    /\ ins' = Return(ins, s, t, b)
    /\ last' = [b |-> "ins", call |-> c, src |-> s, dst |-> t]
    /\ ops' = ops + 1
    /\ UNCHANGED sel

SelPlaceholderFormat(s, t) ==
    \E f \in Formats : SelCall("PlaceholderFormat", s, t, SelectBuilder_PlaceholderFormat(sel[s], f))
SelPrefix(s, t) ==
    \E x \in PrefixIn : SelCall("Prefix", s, t, SelectBuilder_Prefix(sel[s], x.sql, x.args))
SelOptions(s, t) ==
    \E x \in OptionsIn : SelCall("Options", s, t, SelectBuilder_Options(sel[s], x))
SelColumns(s, t) ==
    \E x \in ColumnsIn : SelCall("Columns", s, t, SelectBuilder_Columns(sel[s], x))
SelColumn(s, t) ==
    \E x \in ColumnIn : SelCall("Column", s, t, SelectBuilder_Column(sel[s], x.pred, x.args))
SelFrom(s, t) ==
    \E x \in FromIn : SelCall("From", s, t, SelectBuilder_From(sel[s], x))
SelJoinClause(s, t) ==
    \E x \in JoinIn : SelCall("JoinClause", s, t, SelectBuilder_JoinClause(sel[s], x.pred, x.args))
SelWhere(s, t) ==
    \E x \in WhereIn : SelCall("Where", s, t, SelectBuilder_Where(sel[s], x.pred, x.args))
SelCondition(s, t) ==
    SelCall("Condition", s, t, SelectBuilder_Condition(sel[s]))
SelGroupBy(s, t) ==
    \E x \in GroupByIn : SelCall("GroupBy", s, t, SelectBuilder_GroupBy(sel[s], x))
SelHaving(s, t) ==
    \E x \in HavingIn : SelCall("Having", s, t, SelectBuilder_Having(sel[s], x.pred, x.args))
SelOrderBy(s, t) ==
    \E x \in OrderByIn : SelCall("OrderBy", s, t, SelectBuilder_OrderBy(sel[s], x))
SelLimit(s, t) ==
    \E x \in LimitIn : SelCall("Limit", s, t, SelectBuilder_Limit(sel[s], x))
SelOffset(s, t) ==
    \E x \in OffsetIn : SelCall("Offset", s, t, SelectBuilder_Offset(sel[s], x))
SelSuffix(s, t) ==
    \E x \in SuffixIn : SelCall("Suffix", s, t, SelectBuilder_Suffix(sel[s], x.sql, x.args))

InsPlaceholderFormat(s, t) ==
    \E f \in Formats : InsCall("PlaceholderFormat", s, t, InsertBuilder_PlaceholderFormat(ins[s], f))
InsPrefix(s, t) ==
    \E x \in InsPrefixIn : InsCall("Prefix", s, t, InsertBuilder_Prefix(ins[s], x.sql, x.args))
InsOptions(s, t) ==
    \E x \in InsOptionsIn : InsCall("Options", s, t, InsertBuilder_Options(ins[s], x))
InsInto(s, t) ==
    \E x \in IntoIn : InsCall("Into", s, t, InsertBuilder_Into(ins[s], x))
InsColumns(s, t) ==
    \E x \in InsColumnsIn : InsCall("Columns", s, t, InsertBuilder_Columns(ins[s], x))
InsValues(s, t) ==
    \E x \in ValuesIn : InsCall("Values", s, t, InsertBuilder_Values(ins[s], x))
InsSuffix(s, t) ==
    \E x \in InsSuffixIn : InsCall("Suffix", s, t, InsertBuilder_Suffix(ins[s], x.sql, x.args))
InsSetMap(s, t) ==
    \E x \in SetMapIn : InsCall("SetMap", s, t, InsertBuilder_SetMap(ins[s], x))
InsSelect(s, t) ==
    \E sb \in SubSelects \cup {sel[h] : h \in Handles} :
        InsCall("Select", s, t, InsertBuilder_Select(ins[s], sb))

\* one SELECT builder, built up by a chain of calls
NextSel ==
    \/ ops < MaxOps /\ SelPlaceholderFormat(1, 1)
    \/ ops < MaxOps /\ SelPrefix(1, 1)
    \/ ops < MaxOps /\ SelOptions(1, 1)
    \/ ops < MaxOps /\ SelColumns(1, 1)
    \/ ops < MaxOps /\ SelColumn(1, 1)
    \/ ops < MaxOps /\ SelFrom(1, 1)
    \/ ops < MaxOps /\ SelJoinClause(1, 1)
    \/ ops < MaxOps /\ SelWhere(1, 1)
    \/ ops < MaxOps /\ SelCondition(1, 1)
    \/ ops < MaxOps /\ SelGroupBy(1, 1)
    \/ ops < MaxOps /\ SelHaving(1, 1)
    \/ ops < MaxOps /\ SelOrderBy(1, 1)
    \/ ops < MaxOps /\ SelLimit(1, 1)
    \/ ops < MaxOps /\ SelOffset(1, 1)
    \/ ops < MaxOps /\ SelSuffix(1, 1)

\* one INSERT builder, built up by a chain of calls
NextIns ==
    \/ ops < MaxOps /\ InsPlaceholderFormat(1, 1)
    \/ ops < MaxOps /\ InsPrefix(1, 1)
    \/ ops < MaxOps /\ InsOptions(1, 1)
    \/ ops < MaxOps /\ InsInto(1, 1)
    \/ ops < MaxOps /\ InsColumns(1, 1)
    \/ ops < MaxOps /\ InsValues(1, 1)
    \/ ops < MaxOps /\ InsSuffix(1, 1)
    \/ ops < MaxOps /\ InsSetMap(1, 1)
    \/ ops < MaxOps /\ InsSelect(1, 1)

\* builders derived from one another and held in several variables
NextImm ==
    \/ ops < MaxDerive /\ \E s \in Handles, t \in Handles : SelPlaceholderFormat(s, t)
    \/ ops < MaxDerive /\ \E s \in Handles, t \in Handles : SelPrefix(s, t)
    \/ ops < MaxDerive /\ \E s \in Handles, t \in Handles : SelOptions(s, t)
    \/ ops < MaxDerive /\ \E s \in Handles, t \in Handles : SelColumns(s, t)
    \/ ops < MaxDerive /\ \E s \in Handles, t \in Handles : SelColumn(s, t)
    \/ ops < MaxDerive /\ \E s \in Handles, t \in Handles : SelFrom(s, t)
    \/ ops < MaxDerive /\ \E s \in Handles, t \in Handles : SelJoinClause(s, t)
    \/ ops < MaxDerive /\ \E s \in Handles, t \in Handles : SelWhere(s, t)
    \/ ops < MaxDerive /\ \E s \in Handles, t \in Handles : SelCondition(s, t)
    \/ ops < MaxDerive /\ \E s \in Handles, t \in Handles : SelGroupBy(s, t)
    \/ ops < MaxDerive /\ \E s \in Handles, t \in Handles : SelHaving(s, t)
    \/ ops < MaxDerive /\ \E s \in Handles, t \in Handles : SelOrderBy(s, t)
    \/ ops < MaxDerive /\ \E s \in Handles, t \in Handles : SelLimit(s, t)
    \/ ops < MaxDerive /\ \E s \in Handles, t \in Handles : SelOffset(s, t)
    \/ ops < MaxDerive /\ \E s \in Handles, t \in Handles : SelSuffix(s, t)
    \/ ops < MaxDerive /\ \E s \in Handles, t \in Handles : InsPlaceholderFormat(s, t)
    \/ ops < MaxDerive /\ \E s \in Handles, t \in Handles : InsPrefix(s, t)
    \/ ops < MaxDerive /\ \E s \in Handles, t \in Handles : InsOptions(s, t)
    \/ ops < MaxDerive /\ \E s \in Handles, t \in Handles : InsInto(s, t)
    \/ ops < MaxDerive /\ \E s \in Handles, t \in Handles : InsColumns(s, t)
    \/ ops < MaxDerive /\ \E s \in Handles, t \in Handles : InsValues(s, t)
    \/ ops < MaxDerive /\ \E s \in Handles, t \in Handles : InsSuffix(s, t)
    \/ ops < MaxDerive /\ \E s \in Handles, t \in Handles : InsSetMap(s, t)
    \/ ops < MaxDerive /\ \E s \in Handles, t \in Handles : InsSelect(s, t)

SpecSel == Init /\ [][NextSel]_vars
SpecIns == Init /\ [][NextIns]_vars
SpecImm == Init /\ [][NextImm]_vars

(* ------------------------ properties: helpers ------------------------- *)

\* the fragments of a SELECT builder that go through a Sqlizer render
FragmentsOf(d) == d.Columns \o d.From \o d.Joins \o d.WhereParts \o d.HavingParts

\* the SELECT builders held as a fragment of d
NestedOf(d) ==
    {FragmentsOf(d)[i].inner[1] :
        i \in {j \in 1..Len(FragmentsOf(d)) : FragmentsOf(d)[j].pt = "Sqlizer"}}

RECURSIVE RenderedTexts(_), RenderedArgs(_)
\* the non-empty texts the fragments of a list render to, in list order
RenderedTexts(parts) ==
    IF Len(parts) = 0 THEN <<>>
    ELSE (IF Len(Sqlizer_ToSql(Head(parts)).sql) = 0 THEN <<>>
          ELSE <<Sqlizer_ToSql(Head(parts)).sql>>) \o RenderedTexts(Tail(parts))

\* the arguments the fragments of a list render to, in list order
RenderedArgs(parts) ==
    IF Len(parts) = 0 THEN <<>>
    ELSE Sqlizer_ToSql(Head(parts)).args \o RenderedArgs(Tail(parts))

IsDollarTok(tok) == \E k \in 1..Len(DollarTok) : DollarTok[k] = tok

\* the numbered markers of a text, in occurrence order
RECURSIVE Markers(_)
Markers(text) ==
    IF Len(text) = 0 THEN <<>>
    ELSE (IF IsDollarTok(Head(text)) THEN <<Head(text)>> ELSE <<>>) \o Markers(Tail(text))

(* ------------------------------ claims -------------------------------- *)

\* C1 (as stated): for a SELECT builder that renders, the " WHERE " keyword
\* is in the text exactly when some WHERE predicate renders non-empty text;
\* in particular any number of empty predicates emits no keyword.
C1_EmptyWhereSuppressed ==
    LET d == sel[1]
        r == selectData_ToSql(d)
    IN (r.err = NoErr /\ NestedOf(d) = {}) =>
          ((" WHERE " \in Tokens(r.sql)) <=> (RenderedTexts(d.WhereParts) # <<>>))

\* C3 (as stated): for every INSERT and SELECT that renders, the number of
\* "?" markers of the text assembled before the rewrite equals the length
\* of the argument list.
C3_Parity ==
    \A h \in Handles :
        /\ selectData_ToSql(sel[h]).err = NoErr =>
              Count(selectData_Assemble(sel[h]).sql, "?")
                 = Len(selectData_ToSql(sel[h]).args)
        /\ insertData_ToSql(ins[h]).err = NoErr =>
              Count(insertData_Assemble(ins[h]).sql, "?")
                 = Len(insertData_ToSql(ins[h]).args)

\* C8 (as stated): appendToSql writes the non-empty fragment texts in order
\* with exactly one separator between neighbours and none leading or
\* trailing, for the column, join, WHERE and HAVING lists of a builder.
C8_Separators ==
    LET d == sel[1] IN
    selectData_ToSql(d).err = NoErr =>
        /\ appendToSql(d.Columns, W0, ", ").sql = Join(RenderedTexts(d.Columns), ", ")
        /\ appendToSql(d.Joins, W0, " ").sql = Join(RenderedTexts(d.Joins), " ")
        /\ appendToSql(d.WhereParts, W0, " AND ").sql
              = Join(RenderedTexts(d.WhereParts), " AND ")
        /\ appendToSql(d.HavingParts, W0, " AND ").sql
              = Join(RenderedTexts(d.HavingParts), " AND ")

\* C9 (as stated): the rewriter runs once, over the finished outermost
\* text: under the identity format no numbered marker is in the result and
\* every argument has its "?"; under the numbered format the markers of the
\* result are $1..$n in occurrence order, n the number of arguments.
C9_SingleRewrite ==
    LET d == ins[1]
        r == insertData_ToSql(d)
    IN r.err = NoErr =>
          /\ d.PlaceholderFormat = "Question" =>
                Markers(r.sql) = <<>> /\ Count(r.sql, "?") = Len(r.args)
          /\ d.PlaceholderFormat = "Dollar" =>
                /\ Count(r.sql, "?") = 0
                /\ Markers(r.sql) = [k \in 1..Len(r.args) |-> DollarTok[k]]

\* C10 (as stated): a pred passed to Column, JoinClause or From is
\* classified by the adding call, so no part stored in a builder holds a
\* value that is neither nil, a string nor a fragment.
C10_ClassifiedWhenAdded ==
    LET parts == sel[1].Columns \o sel[1].From \o sel[1].Joins IN
    \A i \in 1..Len(parts) : parts[i].pt \in {"nil", "string", "Sqlizer"}

C4_Original ==
    LET d == sel[1]
        r == SelectBuilder_ToSql(d)
    IN /\ Len(d.Columns) = 0 => r = Panic(ErrNoColumns)
       /\ Len(d.Columns) > 0 => r.err # ErrNoColumns

\* C4 (amended): a SELECT builder with no column fails with the
\* no-result-columns error and returns nothing, whatever else is set; one
\* with a column fails with that error only when a SELECT builder nested in
\* it as a fragment has no column.
C4_Amended ==
    LET d == sel[1]
        r == SelectBuilder_ToSql(d)
    IN /\ Len(d.Columns) = 0 => r = Panic(ErrNoColumns)
       /\ (Len(d.Columns) > 0 /\ r.err = ErrNoColumns) =>
             \E n \in NestedOf(d) : Len(n.Columns) = 0

\* no column, but a FROM clause, a WHERE predicate and a prefix are set
C4_Witness ==
    /\ Len(sel[1].Columns) = 0
    /\ sel[1].From # <<>>
    /\ Len(sel[1].WhereParts) > 0
    /\ Len(sel[1].Prefixes) > 0
    /\ SelectBuilder_ToSql(sel[1]) = Panic(ErrNoColumns)

\* C5: an INSERT without a table fails with the missing-table error, also
\* when the payload is missing too; one with a table but neither values
\* nor sub-select fails with the missing-payload error; both return no
\* text; with a table and a payload neither error is raised.
C5_InsertPreconditions ==
    LET d == ins[1]
        r == InsertBuilder_ToSql(d)
    IN /\ Len(d.Into) = 0 => r = Panic(ErrNoTable)
       /\ (Len(d.Into) > 0 /\ Len(d.Values) = 0 /\ d.Select = <<>>) =>
             r = Panic(ErrNoPayload)
       /\ (Len(d.Into) > 0 /\ (Len(d.Values) > 0 \/ d.Select # <<>>)) =>
             r.err \notin {ErrNoTable, ErrNoPayload}

\* table and payload both missing, other clauses set: the table error wins
C5_Witness ==
    /\ Len(ins[1].Into) = 0
    /\ Len(ins[1].Values) = 0 /\ ins[1].Select = <<>>
    /\ Len(ins[1].Prefixes) > 0 /\ Len(ins[1].Columns) > 0
    /\ InsertBuilder_ToSql(ins[1]) = Panic(ErrNoTable)

\* the arguments the values rows would contribute
ValuesArgSet(d) == {valuesArgs(d.Values)[i] : i \in 1..Len(valuesArgs(d.Values))}

\* C6: an INSERT holding both values rows and a sub-select that renders
\* writes the sub-select's text right after the INTO/columns part, writes
\* no VALUES keyword, and returns the prefix, sub-select and suffix
\* arguments only, none of them a values element.
C6_SelectPrecedence ==
    LET d == ins[1]
        sub == SelectBuilder_ToSql(d.Select[1])
        pre == insertData_Assemble(d)
        head == insertColumns(d, insertInto(d, insertKeyword(d, insertPrefixes(d, W0))))
        r == InsertBuilder_ToSql(d)
    IN (Len(d.Into) > 0 /\ Len(d.Values) > 0 /\ d.Select # <<>> /\ sub.err = NoErr) =>
          /\ r.err = NoErr
          /\ "VALUES " \notin Tokens(pre.sql)
          /\ SubSeq(pre.sql, Len(head.sql) + 1, Len(head.sql) + Len(sub.sql)) = sub.sql
          /\ r.args = RenderedArgs(d.Prefixes) \o sub.args \o RenderedArgs(d.Suffixes)
          /\ \A i \in 1..Len(r.args) : r.args[i] \notin ValuesArgSet(d)

\* values rows and a sub-select with an argument, the values added last
C6_Witness ==
    /\ Len(ins[1].Into) > 0 /\ Len(ins[1].Values) > 0 /\ ins[1].Select # <<>>
    /\ last.call \in {"Values", "SetMap"}
    /\ InsertBuilder_ToSql(ins[1]).err = NoErr
    /\ Len(InsertBuilder_ToSql(ins[1]).args) > 0

\* the clause slot a token belongs to; 0 for the tokens every slot may hold
SlotOf(tok) ==
    CASE tok \in {"WITH p AS (", ")"} -> 1
      [] tok \in {"SELECT ", "DISTINCT"} -> 2
      [] tok \in {"c1", "c2", "c3 + "} -> 3
      [] tok \in {" FROM ", "tbl"} -> 4
      [] tok \in {"JOIN j ON k = "} -> 5
      [] tok \in {" WHERE ", "w = ", "w2 < "} -> 6
      [] tok \in {" GROUP BY ", "g1", "g2"} -> 7
      [] tok \in {" HAVING ", "h > "} -> 8
      [] tok \in {" ORDER BY ", "o1"} -> 9
      [] tok = " LIMIT " -> 10
      [] tok = " OFFSET " -> 11
      [] tok \in {"FETCH FIRST "} -> 12
      [] OTHER -> 0

\* the slots of the tokens of a text that belong to one slot, in text order
RECURSIVE SlotsOf(_)
SlotsOf(text) ==
    IF Len(text) = 0 THEN <<>>
    ELSE (IF SlotOf(Head(text)) = 0 THEN <<>> ELSE <<SlotOf(Head(text))>>)
         \o SlotsOf(Tail(text))

Keywords ==
    {"SELECT ", " FROM ", " WHERE ", " GROUP BY ", " HAVING ", " ORDER BY ",
     " LIMIT ", " OFFSET "}

\* C7: whatever the order of the calls, the tokens of the rendered text
\* come in the slot order prefix, SELECT + options, columns, FROM, joins,
\* WHERE, GROUP BY, HAVING, ORDER BY, LIMIT, OFFSET, suffix, each keyword at
\* most once and LIMIT/OFFSET followed by their number, and the arguments
\* are those of the prefix, column, FROM, join, WHERE, HAVING and suffix
\* fragments, in that slot order and in list order within a slot.
C7_ClauseOrder ==
    LET d == sel[1]
        r == SelectBuilder_ToSql(d)
    IN r.err = NoErr =>
          /\ r.args = RenderedArgs(d.Prefixes) \o RenderedArgs(d.Columns)
                         \o RenderedArgs(d.From) \o RenderedArgs(d.Joins)
                         \o RenderedArgs(d.WhereParts) \o RenderedArgs(d.HavingParts)
                         \o RenderedArgs(d.Suffixes)
          /\ NestedOf(d) = {} =>
                /\ LET slots == SlotsOf(r.sql) IN
                   \A i \in 1..(Len(slots) - 1) : slots[i] <= slots[i + 1]
                /\ \A kw \in Keywords : Count(r.sql, kw) <= 1
                /\ \A i \in 1..Len(r.sql) :
                      /\ r.sql[i] = " LIMIT " =>
                            SubSeq(r.sql, i + 1, i + Len(d.Limit)) = d.Limit
                      /\ r.sql[i] = " OFFSET " =>
                            SubSeq(r.sql, i + 1, i + Len(d.Offset)) = d.Offset

\* a prefix with an argument added after a WHERE and a HAVING predicate
\* with arguments, and rendered before them
C7_Witness ==
    /\ last.call = "Prefix"
    /\ Len(sel[1].WhereParts) > 0 /\ Len(sel[1].HavingParts) > 0
    /\ SelectBuilder_ToSql(sel[1]).err = NoErr
    /\ Len(SelectBuilder_ToSql(sel[1]).args) >= 3
    /\ SelectBuilder_ToSql(sel[1]).args[1] = 10

====
